---- MODULE Spec2Model ----
(***************************************************************************)
(* Model of the HealthCare_System front end:                               *)
(*   - the symptom checker page (Index / handleSubmit),                    *)
(*   - the rendering of one history item (safeDateFromDoc, HistoryPage's   *)
(*     items.map body),                                                    *)
(*   - the history page's load and delete handlers with lib/api.           *)
(* JavaScript values are records tagged by t; a JavaScript string is the   *)
(* sequence of its characters, so that trim / charAt / slice / case        *)
(* conversion are computed and not assumed.                                *)
(***************************************************************************)
EXTENDS Integers, Sequences, FiniteSets, TLC

VARIABLES
    \* ---- symptom checker page (Index) ----
    symptoms,   \* useState("")  : text of the symptoms textarea
    loading,    \* useState(false)
    result,     \* useState<AnalysisResult | null>(null)
    error,      \* useState("")
    inflight,   \* handleSubmit calls suspended at `await fetch(...)`, each with its request body
    lastCall,   \* what the most recent handler did (observation of the last event)
    \* ---- one history item through the items.map body ----
    it,         \* the history document being rendered
    view,       \* what the render produced for it
    \* ---- history page (HistoryPage + lib/api + history service) ----
    items,      \* useState<HistoryItem[]>([])
    hLoading,   \* useState(false)
    hError,     \* useState("")
    mounted,    \* position of the mount effect: "init" | "fetching" | "done"
    store,      \* identifiers held by the history store behind /api/history
    dels,       \* handleDelete calls suspended at `await deleteHistory(id)`, one record per call
    lastDelete, \* what the most recent handleDelete step did (observation of the last event)
    loaded,     \* the list the mount effect put in items (observation)
    succeeded   \* identifiers whose deleteHistory call has resolved (observation)

idxVars  == <<symptoms, loading, result, error, inflight, lastCall>>
itemVars == <<it, view>>
histVars == <<items, hLoading, hError, mounted, store, dels, lastDelete, loaded, succeeded>>
vars     == <<idxVars, itemVars, histVars>>

(***************************************************************************)
(* JavaScript values                                                       *)
(***************************************************************************)
Undefined == [t |-> "undefined"]
Null      == [t |-> "null"]
Str(s)    == [t |-> "string", s |-> s]
Num(n)    == [t |-> "number", n |-> n]
Arr(a)    == [t |-> "array", a |-> a]

\* Boolean coercion (used by ||, !v, &&)
Truthy(v) ==
    CASE v.t = "undefined" -> FALSE
      [] v.t = "null"      -> FALSE
      [] v.t = "string"    -> v.s # <<>>
      [] v.t = "number"    -> v.n # 0
      [] OTHER             -> TRUE

\* a || b
OrElse(a, b) == IF Truthy(a) THEN a ELSE b

IsArray(v) == v.t = "array"

LowerAlpha == <<"a","b","c","d","e","f","g","h","i","j","k","l","m",
                "n","o","p","q","r","s","t","u","v","w","x","y","z">>
UpperAlpha == <<"A","B","C","D","E","F","G","H","I","J","K","L","M",
                "N","O","P","Q","R","S","T","U","V","W","X","Y","Z">>

ToUpperChar(c) ==
    IF \E i \in 1..Len(LowerAlpha) : LowerAlpha[i] = c
    THEN UpperAlpha[CHOOSE i \in 1..Len(LowerAlpha) : LowerAlpha[i] = c]
    ELSE c

ToLowerChar(c) ==
    IF \E i \in 1..Len(UpperAlpha) : UpperAlpha[i] = c
    THEN LowerAlpha[CHOOSE i \in 1..Len(UpperAlpha) : UpperAlpha[i] = c]
    ELSE c

ToUpperCase(s) == [i \in 1..Len(s) |-> ToUpperChar(s[i])]
ToLowerCase(s) == [i \in 1..Len(s) |-> ToLowerChar(s[i])]

IsSpace(c) == c \in {" ", "\t", "\n"}

RECURSIVE TrimStart(_)
TrimStart(s) == IF s # <<>> /\ IsSpace(Head(s)) THEN TrimStart(Tail(s)) ELSE s

RECURSIVE TrimEnd(_)
TrimEnd(s) ==
    IF s # <<>> /\ IsSpace(s[Len(s)]) THEN TrimEnd(SubSeq(s, 1, Len(s) - 1)) ELSE s

\* String.prototype.trim
Trim(s) == TrimEnd(TrimStart(s))

\* s.charAt(0)
CharAt0(s) == IF s = <<>> THEN <<>> ELSE <<s[1]>>

\* s.slice(1)
Slice1(s) == IF s = <<>> THEN <<>> ELSE Tail(s)

Digits == <<"0","1","2","3","4","5","6","7","8","9">>

RECURSIVE NatToString(_)
NatToString(n) ==
    IF n < 10 THEN <<Digits[n + 1]>>
    ELSE NatToString(n \div 10) \o <<Digits[(n % 10) + 1]>>

\* value.toString() for the values a JSON field can hold
ToStringJS(v) ==
    CASE v.t = "string" -> v.s
      [] v.t = "number" -> NatToString(v.n)
      [] OTHER          -> <<"[","o","b","j","e","c","t"," ","O","b","j","e","c","t","]">>

(***************************************************************************)
(* Symptom checker page: src/frontend/src/pages/NotFound.tsx, Index        *)
(***************************************************************************)
\* an element of data.conditions that is an object
Cond(n, p, d) == [t |-> "object", name |-> n, probability |-> p, description |-> d]
\* the parsed body of an analyze response that is an object
Data(c, r, u) == [t |-> "object", conditions |-> c, recommendations |-> r, urgency |-> u]

\* c.name / c.probability / c.description: a primitive has no such property
PropName(c)        == IF c.t = "object" THEN c.name ELSE Undefined
PropProbability(c) == IF c.t = "object" THEN c.probability ELSE Undefined
PropDescription(c) == IF c.t = "object" THEN c.description ELSE Undefined

\* data.conditions / data.recommendations / data.urgency
PropConditions(d)      == IF d.t = "object" THEN d.conditions ELSE Undefined
PropRecommendations(d) == IF d.t = "object" THEN d.recommendations ELSE Undefined

sLow     == <<"L","o","w">>
slow     == <<"l","o","w">>
sUnknown == <<"U","n","k","n","o","w","n">>

\* lines 145-147: the probability expression of the map callback
normalizeProbability(p) ==
    Str( ToUpperCase(CharAt0(Trim(ToStringJS(OrElse(p, Str(sLow))))))
         \o ToLowerCase(Slice1(Trim(ToStringJS(OrElse(p, Str(slow)))))) )

\* lines 143-149: the map callback on one element (c is not null: see conditionsMap)
mapCondition(c) ==
    Cond(OrElse(PropName(c), Str(sUnknown)),
         normalizeProbability(PropProbability(c)),
         OrElse(PropDescription(c), Str(<<>>)))

\* reading a property of null or undefined throws a TypeError
ThrowsOnRead(c) == c.t \in {"null", "undefined"}

\* lines 143-149: data.conditions.map(...) : the mapped array, or the TypeError
conditionsMap(a) ==
    IF \E i \in 1..Len(a) : ThrowsOnRead(a[i])
    THEN [threw |-> TRUE, message |-> "Cannot read properties of null (reading 'name')",
          value |-> <<>>]
    ELSE [threw |-> FALSE, message |-> "",
          value |-> [i \in 1..Len(a) |-> mapCondition(a[i])]]

\* the guard with the recommendations test left out
ShapeOkConditionsOnly(data) ==
    /\ Truthy(data)
    /\ IsArray(PropConditions(data))

\* line 138: the guard on the response's shape (TRUE: the shape is accepted)
ShapeOk(data) ==
    /\ Truthy(data)
    /\ IsArray(PropConditions(data))
    /\ IsArray(PropRecommendations(data))

\* line 153: err?.message || "Unable to analyze symptoms. Is backend running?"
CatchMessage(msg) ==
    IF msg = "" THEN "Unable to analyze symptoms. Is backend running?" ELSE msg

\* lines 119-153: what the try/catch leaves in (result, error) for one server reply.
\* result and error were reset by the synchronous part (lines 116-117).
Outcome(reply) ==
    CASE reply.kind = "reject" ->
             [result |-> Null, error |-> CatchMessage(reply.message)]
      [] reply.kind = "status" ->
             [result |-> Null,
              error  |-> CatchMessage(IF reply.text = "" THEN "Analysis failed" ELSE reply.text)]
      [] reply.kind = "badjson" ->
             [result |-> Null, error |-> CatchMessage("Unexpected token < in JSON at position 0")]
      [] reply.kind = "json" ->
             IF ~ShapeOk(reply.data)
             THEN [result |-> Null,
                   error  |-> CatchMessage("Unexpected response shape from API (mite be json issue)")]
             ELSE LET m == conditionsMap(reply.data.conditions.a)
                  IN  IF m.threw
                      THEN [result |-> Null, error |-> CatchMessage(m.message)]
                      ELSE [result |-> [reply.data EXCEPT !.conditions = Arr(m.value)],
                            error  |-> ""]

\* lines 71-92: the keys of urgencyConfig
urgencyConfigKeys ==
    { <<"e","m","e","r","g","e","n","c","y">>, <<"u","r","g","e","n","t">>,
      <<"r","o","u","t","i","n","e">>, <<"s","e","l","f","-","c","a","r","e">> }

\* lines 267-270: urgencyConfig[result.urgency] is an entry of the table
urgencyLookupDefined(r) == r.urgency.t = "string" /\ r.urgency.s \in urgencyConfigKeys

---------------------------------------------------------------------------
\* Bounds of the inputs
MaxConds    == 2    \* longest conditions array in a response
MaxInFlight == 2    \* handleSubmit calls suspended at once when the form is submitted directly

SeqsUpTo(S, n) == UNION { [1..k -> S] : k \in 0..n }

sFlu  == <<"F","l","u">>
sDesc == <<"v","i","r","a","l">>
sRest == <<"r","e","s","t">>

ProbInputs ==
    { Undefined, Null, Str(<<>>), Str(<<" ">>), Num(5),
      Str(<<"h","i","g","h">>), Str(<<"H","I","G","H">>),
      Str(<<" ","M","e","d","i","u","m"," ">>), Str(<<"l","o","w">>),
      Str(<<"H","i","g","h">>),
      Str(<<"u","n","k","n","o","w","n">>) }

CondElems ==
    { Null, Str(sFlu), Num(5),
      Cond(Undefined, Undefined, Undefined),
      Cond(Null, Null, Null),
      Cond(Undefined, Str(<<"h","i","g","h">>), Str(sDesc)),
      Cond(Str(sFlu), Str(<<"l","o","w">>), Undefined) }
    \cup { Cond(Str(sFlu), p, Str(sDesc)) : p \in ProbInputs }

ConditionsFields ==
    { Arr(a) : a \in SeqsUpTo(CondElems, MaxConds) } \cup { Undefined, Null, Str(sFlu) }

RecommendationsFields ==
    { Arr(<<>>), Arr(<<Str(sRest)>>), Undefined, Null, Str(sRest) }

UrgencyFields ==
    { Undefined, Str(<<"u","r","g","e","n","t">>), Str(<<"U","r","g","e","n","t">>) }

Replies ==
    { [kind |-> "reject", message |-> m] : m \in {"Failed to fetch", ""} }
    \cup { [kind |-> "status", text |-> x] : x \in {"", "Internal Server Error"} }
    \cup { [kind |-> "badjson"] }
    \cup { [kind |-> "json", data |-> d] : d \in {Null, Num(0), Num(5), Arr(<<>>)} }
    \cup { [kind |-> "json", data |-> Data(c, r, u)] :
             c \in ConditionsFields, r \in RecommendationsFields, u \in UrgencyFields }

\* the replies used where calls overlap: one of each kind
HandlerReplies ==
    { [kind |-> "reject", message |-> "Failed to fetch"],
      [kind |-> "status", text |-> ""],
      [kind |-> "json", data |-> Null],
      [kind |-> "json",
       data |-> Data(Arr(<<Cond(Str(sFlu), Str(<<"h","i","g","h">>), Str(sDesc))>>),
                     Arr(<<Str(sRest)>>), Str(<<"u","r","g","e","n","t">>))] }

SymptomInputs == { <<>>, <<" ">>, <<" ","f","l","u"," ">> }

---------------------------------------------------------------------------
\* line 182: onChange of the textarea
setSymptoms(s) ==
    /\ symptoms' = s
    /\ lastCall' = [op |-> "setSymptoms"]
    /\ UNCHANGED <<loading, result, error, inflight>>

\* lines 111-129: handleSubmit up to `await fetch(...)`
handleSubmitCall ==
    IF Trim(symptoms) = <<>>
    THEN \* line 113: return
         /\ lastCall' = [op |-> "handleSubmit", symptoms |-> symptoms, sent |-> FALSE]
         /\ UNCHANGED <<symptoms, loading, result, error, inflight>>
    ELSE /\ loading' = TRUE
         /\ error' = ""
         /\ result' = Null
         /\ inflight' = Append(inflight, [symptoms |-> Trim(symptoms)])
         /\ lastCall' = [op |-> "handleSubmit", symptoms |-> symptoms, sent |-> TRUE]
         /\ UNCHANGED symptoms

\* lines 229-231: a click on the submit button, which is disabled while
\* loading or while the trimmed symptoms are empty
clickAnalyze ==
    /\ ~(loading \/ Trim(symptoms) = <<>>)
    /\ handleSubmitCall

\* line 177: a submit event dispatched at the form itself (form.requestSubmit()):
\* the button's disabled attribute does not apply
dispatchSubmit ==
    /\ Len(inflight) < MaxInFlight
    /\ handleSubmitCall

\* lines 129-156: the fetch of one suspended call settles and the call runs to its end
fetchSettles(R) ==
    \E i \in 1..Len(inflight), reply \in R :
        LET o == Outcome(reply) IN
        /\ inflight' = SubSeq(inflight, 1, i - 1) \o SubSeq(inflight, i + 1, Len(inflight))
        /\ IF o.error = ""
           THEN result' = o.result /\ error' = error     \* line 151: setResult(data)
           ELSE error' = o.error /\ result' = result     \* line 153: setError(...)
        /\ loading' = FALSE                              \* line 155
        /\ lastCall' = [op |-> "settled", request |-> inflight[i], reply |-> reply]
        /\ UNCHANGED symptoms

IndexInit ==
    /\ symptoms = <<>>
    /\ loading = FALSE
    /\ result = Null
    /\ error = ""
    /\ inflight = <<>>
    /\ lastCall = [op |-> "init"]

(***************************************************************************)
(* One history item: src/unnamed/part_001, safeDateFromDoc and the body of *)
(* items.map in HistoryPage                                                *)
(***************************************************************************)
\* a wrapped date { $date: x }
DateWrap(x) == [t |-> "object", date |-> x]
\* the result block of a history document
Res(c, conds, recs) ==
    [t |-> "object", created |-> c, conditions |-> conds, recommendations |-> recs]
\* a history document; the fields are _id, _created_at, created_at, createdAt, result
Doc(id, a, b, c, r) ==
    [t |-> "object", id |-> id, u_created_at |-> a, created_at |-> b, createdAt |-> c,
     result |-> r]

IsDoc(d) == d.t = "object" /\ "createdAt" \in DOMAIN d
IsRes(r) == r.t = "object" /\ "created" \in DOMAIN r

\* v?.$date
PropDate(v) == IF v.t = "object" /\ "date" \in DOMAIN v THEN v.date ELSE Undefined

IsDigit(c) == \E i \in 1..Len(Digits) : Digits[i] = c
DigitVal(c) == (CHOOSE i \in 1..Len(Digits) : Digits[i] = c) - 1

NaNDate == [valid |-> FALSE, y |-> 0, m |-> 0, d |-> 0]

DaysInMonth == <<31, 28, 31, 30, 31, 30, 31, 31, 30, 31, 30, 31>>

\* Date.parse of the date-only ISO form YYYY-MM-DD; any other text is not a date
DateParse(s) ==
    IF /\ Len(s) = 10
       /\ s[5] = "-" /\ s[8] = "-"
       /\ \A i \in {1, 2, 3, 4, 6, 7, 9, 10} : IsDigit(s[i])
    THEN LET y == 1000 * DigitVal(s[1]) + 100 * DigitVal(s[2]) + 10 * DigitVal(s[3])
                  + DigitVal(s[4])
             m == 10 * DigitVal(s[6]) + DigitVal(s[7])
             d == 10 * DigitVal(s[9]) + DigitVal(s[10])
         IN  IF m \in 1..12 /\ d \in 1..DaysInMonth[m]
             THEN [valid |-> TRUE, y |-> y, m |-> m, d |-> d]
             ELSE NaNDate
    ELSE NaNDate

\* new Date(x): a string is parsed, a number is days since the epoch in
\* milliseconds (within January 1970), anything else gives an invalid date
NewDate(x) ==
    CASE x.t = "string" -> DateParse(x.s)
      [] x.t = "number" ->
             IF x.n \div 86400000 < 28
             THEN [valid |-> TRUE, y |-> 1970, m |-> 1, d |-> 1 + (x.n \div 86400000)]
             ELSE NaNDate
      [] OTHER -> NaNDate

sInvalidDate == <<"I","n","v","a","l","i","d"," ","D","a","t","e">>

\* d.toLocaleString() (en-US, midnight UTC)
toLocaleString(d) ==
    IF ~d.valid THEN sInvalidDate
    ELSE NatToString(d.m) \o <<"/">> \o NatToString(d.d) \o <<"/">> \o NatToString(d.y)
         \o <<",", " ", "1", "2", ":", "0", "0", ":", "0", "0", " ", "A", "M">>

\* the reads without optional chaining: doc._created_at throws on a null doc,
\* doc.result._created_at on a missing result
dateCandidatesPlain(doc) ==
    [threw |-> ~IsDoc(doc) \/ ~IsRes(doc.result),
     vals  |-> IF IsDoc(doc) /\ IsRes(doc.result)
               THEN << doc.u_created_at, doc.created_at, doc.createdAt, doc.result.created >>
               ELSE << >>]

\* the candidates with created_at tried before _created_at
dateCandidatesSwapped(doc) ==
    [threw |-> FALSE,
     vals  |-> IF IsDoc(doc)
               THEN << doc.created_at, doc.u_created_at, doc.createdAt,
                       IF IsRes(doc.result) THEN doc.result.created ELSE Undefined >>
               ELSE << Undefined, Undefined, Undefined, Undefined >>]

\* lines 37-42: the candidate values, in the order they are tried; every read is
\* optional-chained (doc?.x, doc?.result?._created_at), so none throws
dateCandidates(doc) ==
    [threw |-> FALSE,
     vals  |-> IF IsDoc(doc)
               THEN << doc.u_created_at, doc.created_at, doc.createdAt,
                       IF IsRes(doc.result) THEN doc.result.created ELSE Undefined >>
               ELSE << Undefined, Undefined, Undefined, Undefined >>]

\* lines 45-53: the body of the loop for one candidate: the string returned, or
\* found = FALSE when the loop goes on
tryCandidate(v) ==
    IF ~Truthy(v) THEN [found |-> FALSE, text |-> <<>>]
    ELSE IF v.t = "string" /\ NewDate(v).valid
         THEN [found |-> TRUE, text |-> toLocaleString(NewDate(v))]
    ELSE IF Truthy(PropDate(v)) /\ NewDate(PropDate(v)).valid
         THEN [found |-> TRUE, text |-> toLocaleString(NewDate(PropDate(v)))]
    ELSE [found |-> FALSE, text |-> <<>>]

RECURSIVE dateLoop(_, _)
dateLoop(vals, i) ==
    IF i > Len(vals) THEN sInvalidDate
    ELSE IF tryCandidate(vals[i]).found THEN tryCandidate(vals[i]).text
    ELSE dateLoop(vals, i + 1)

\* lines 36-57: the string returned, or threw
safeDateFromDoc(doc) ==
    IF dateCandidates(doc).threw
    THEN [threw |-> TRUE, text |-> <<>>]
    ELSE [threw |-> FALSE, text |-> dateLoop(dateCandidates(doc).vals, 1)]

\* line 108: it?.result ?? {}
itemResult(item) ==
    IF IsDoc(item) /\ item.result.t \notin {"undefined", "null"}
    THEN item.result
    ELSE Res(Undefined, Undefined, Undefined)

itemConditions(item) ==
    IF IsRes(itemResult(item)) THEN itemResult(item).conditions ELSE Undefined
itemRecommendations(item) ==
    IF IsRes(itemResult(item)) THEN itemResult(item).recommendations ELSE Undefined

\* lines 116-118 and 149-155: the recommendations rendered
renderRecs(item) ==
    IF IsArray(itemRecommendations(item)) THEN itemRecommendations(item).a ELSE <<>>

\* the conditions rendered on `result.conditions && result.conditions.length > 0`:
\* a string is iterated character by character, an object has no length
renderConditionsNoGuard(item) ==
    IF IsArray(itemConditions(item)) /\ Len(itemConditions(item).a) > 0
    THEN itemConditions(item).a
    ELSE IF itemConditions(item).t = "string" /\ Len(itemConditions(item).s) > 0
    THEN [i \in 1..Len(itemConditions(item).s) |-> Str(<<itemConditions(item).s[i]>>)]
    ELSE <<>>

\* lines 157-175: the <li> elements rendered for the conditions
renderConditions(item) ==
    IF IsArray(itemConditions(item)) /\ Len(itemConditions(item).a) > 0
    THEN itemConditions(item).a
    ELSE <<>>

\* line 120 reads it._id of a null item; line 164 reads c.name of a null element
renderThrows(item) ==
    \/ ~IsDoc(item)
    \/ \E i \in 1..Len(renderConditions(item)) : ThrowsOnRead(renderConditions(item)[i])

\* line 120: it._id || ""
itemId(item) == IF IsDoc(item) THEN OrElse(item.id, Str(<<>>)) ELSE Str(<<>>)

sIso1    == <<"2","0","2","4","-","0","1","-","0","5">>
sIso2    == <<"2","0","2","3","-","1","1","-","2","0">>
sIso3    == <<"2","0","2","2","-","0","7","-","0","9">>
sGarbage == <<"s","o","o","n">>
sId1     == <<"a","1">>

DateVals ==
    { Undefined, Null, Str(<<>>), Str(sGarbage), Num(1700), Str(sIso1), Str(sIso2),
      DateWrap(Str(sIso3)), DateWrap(Str(sGarbage)), DateWrap(Undefined),
      DateWrap(Num(172800000)), DateWrap(DateWrap(Str(sIso1))) }

CondShapes ==
    { Undefined, Null, Str(sFlu), Num(5), Arr(<<>>), Arr(<<Null>>),
      Arr(<<Cond(Str(sFlu), Str(<<"H","i","g","h">>), Str(sDesc))>>),
      Cond(Str(sFlu), Str(sLow), Str(sDesc)) }

RecShapes == { Undefined, Null, Str(sRest), Arr(<<>>), Arr(<<Str(sRest)>>), Num(5) }

\* documents that vary where the timestamp is
DateDocs ==
    { Doc(Str(sId1), a, b, c, r) :
        a \in DateVals, b \in DateVals, c \in DateVals,
        r \in {Undefined, Null} \cup { Res(v, Arr(<<>>), Arr(<<>>)) : v \in DateVals } }

\* documents that vary in the shape of result
ShapeDocs ==
    { Doc(id, Str(sIso1), Undefined, Undefined, r) :
        id \in {Undefined, Str(sId1)},
        r \in {Undefined, Null, Str(sFlu)}
              \cup { Res(Undefined, c, rc) : c \in CondShapes, rc \in RecShapes } }

Docs == {Null, Undefined} \cup DateDocs \cup ShapeDocs

NotRendered ==
    [rendered |-> FALSE, threw |-> FALSE, dateThrew |-> FALSE, createdAtStr |-> <<>>,
     recs |-> <<>>, conditions |-> <<>>, id |-> Str(<<>>)]

\* line 110 (safeDateFromDoc(it)) and lines 106-178 (the body of items.map) for
\* the document
renderItem ==
    /\ ~view.rendered
    /\ view' = [rendered |-> TRUE,
                threw |-> renderThrows(it),
                dateThrew |-> safeDateFromDoc(it).threw,
                createdAtStr |-> safeDateFromDoc(it).text,
                recs |-> renderRecs(it),
                conditions |-> renderConditions(it),
                id |-> itemId(it)]
    /\ UNCHANGED it

ItemInit ==
    /\ it \in Docs
    /\ view = NotRendered

(***************************************************************************)
(* History page: src/unnamed/part_001 HistoryPage, src/unnamed/part_002    *)
(* (lib/api), and the history service behind /api/history                  *)
(***************************************************************************)
MaxDels == 2        \* handleDelete calls suspended at once

HistoryLimit == 50  \* fetchHistory(50, 0)

sId2 == <<"b","2">>
Ids  == { sId1, sId2 }

\* a listed history item; only _id matters to the page's handlers
Item(id) == [t |-> "object", id |-> id]

\* String(x)
StringOf(v) ==
    CASE v.t = "undefined" -> <<"u","n","d","e","f","i","n","e","d">>
      [] v.t = "null"      -> <<"n","u","l","l">>
      [] OTHER             -> ToStringJS(v)

\* the stores the page can be opened on: identifiers, most recent first
Stores == { <<>>, <<sId1>>, <<sId2, sId1>> }

\* history service, list(limit, offset = 0): the most recent records first
serviceList(st, limit) == SubSeq(st, 1, IF Len(st) < limit THEN Len(st) ELSE limit)

\* history service, delete(id): an empty identifier fails InvalidInput; deleting
\* an identifier that is not stored is not an error
serviceDelete(st, id) ==
    IF id = <<>>
    THEN [ok |-> FALSE, deleted |-> 0, store |-> st]
    ELSE [ok |-> TRUE,
          deleted |-> IF \E i \in 1..Len(st) : st[i] = id THEN 1 ELSE 0,
          store |-> SelectSeq(st, LAMBDA x : x # id)]

\* the bodies the list endpoint can answer with for the listed identifiers: the
\* items wrapped as {items: [...]} or bare, an item's _id present or absent
ListBodies(ids) ==
    LET arrs == { [i \in 1..Len(ids) |-> Item(IF i \in hide THEN Undefined ELSE Str(ids[i]))] :
                    hide \in SUBSET (1..Len(ids)) }
    IN  { [t |-> "object", items |-> Arr(a)] : a \in arrs } \cup { Arr(a) : a \in arrs }

\* lines 70-74: the array taken from the body
itemsOfBody(data) ==
    IF data.t = "object" /\ IsArray(data.items) THEN data.items.a
    ELSE IF IsArray(data) THEN data.a
    ELSE <<>>

\* lines 65-67: the mount effect starts: setLoading(true), fetchHistory(50, 0) is sent
mountEffect ==
    /\ mounted = "init"
    /\ mounted' = "fetching"
    /\ hLoading' = TRUE
    /\ UNCHANGED <<items, hError, store, dels, lastDelete, loaded, succeeded>>

\* lines 68-80 with part_002 lines 3-7: the list request is answered
fetchHistoryOk ==
    /\ mounted = "fetching"
    /\ \E data \in ListBodies(serviceList(store, HistoryLimit)) :
          /\ items' = itemsOfBody(data)
          /\ loaded' = itemsOfBody(data)
    /\ hLoading' = FALSE
    /\ mounted' = "done"
    /\ UNCHANGED <<hError, store, dels, lastDelete, succeeded>>

\* lines 76-80 with part_002 line 5: the list request fails (rejected fetch, or a
\* response that is not ok)
fetchHistoryFails ==
    /\ mounted = "fetching"
    /\ \E msg \in {"Failed to fetch", "Failed to fetch history"} : hError' = msg
    /\ hLoading' = FALSE
    /\ mounted' = "done"
    /\ UNCHANGED <<items, store, dels, lastDelete, loaded, succeeded>>

RemoveAt(q, k) == SubSeq(q, 1, k - 1) \o SubSeq(q, k + 1, Len(q))

\* the click with the item taken out of the list as soon as the request is sent
clickDeleteOptimistic ==
    \E i \in 1..Len(items), accepted \in BOOLEAN :
        LET id == ToStringJS(OrElse(items[i].id, Str(<<>>))) IN
        /\ Len(dels) < MaxDels
        /\ IF accepted
           THEN /\ dels' = Append(dels, [id |-> id, phase |-> "sent", ok |-> FALSE,
                                          deleted |-> 0, existed |-> FALSE])
                /\ items' = SelectSeq(items, LAMBDA x : StringOf(x.id) # id)
                /\ lastDelete' = [op |-> "sent", id |-> id, existed |-> FALSE,
                                  alerted |-> FALSE, message |-> ""]
           ELSE /\ dels' = dels
                /\ items' = items
                /\ lastDelete' = [op |-> "declined", id |-> id, existed |-> FALSE,
                                  alerted |-> FALSE, message |-> ""]
        /\ UNCHANGED <<hLoading, hError, mounted, store, loaded, succeeded>>

\* lines 84-87, 141-142: a click on an item's Delete button; the confirm dialog
\* is answered, and when accepted deleteHistory(id) sends DELETE /api/history/{id}
clickDelete ==
    \E i \in 1..Len(items), accepted \in BOOLEAN :
        LET id == ToStringJS(OrElse(items[i].id, Str(<<>>))) IN
        /\ Len(dels) < MaxDels
        /\ IF accepted
           THEN /\ dels' = Append(dels, [id |-> id, phase |-> "sent", ok |-> FALSE,
                                          deleted |-> 0, existed |-> FALSE])
                /\ lastDelete' = [op |-> "sent", id |-> id, existed |-> FALSE,
                                  alerted |-> FALSE, message |-> ""]
           ELSE /\ dels' = dels
                /\ lastDelete' = [op |-> "declined", id |-> id, existed |-> FALSE,
                                  alerted |-> FALSE, message |-> ""]
        /\ UNCHANGED <<items, hLoading, hError, mounted, store, loaded, succeeded>>

\* the history service handles one DELETE request and answers it
serviceHandlesDelete ==
    \E k \in 1..Len(dels) :
        LET r == serviceDelete(store, dels[k].id) IN
        /\ dels[k].phase = "sent"
        /\ store' = r.store
        /\ dels' = [dels EXCEPT ![k] = [id |-> dels[k].id, phase |-> "answered",
                                        ok |-> r.ok, deleted |-> r.deleted,
                                        existed |-> r.deleted = 1]]
        /\ UNCHANGED <<items, hLoading, hError, mounted, lastDelete, loaded, succeeded>>

\* part_002 line 10 rejects: the request or its response is lost; lines 89-90
connectionFails ==
    \E k \in 1..Len(dels) :
        /\ dels' = RemoveAt(dels, k)
        /\ lastDelete' = [op |-> "lost", id |-> dels[k].id, existed |-> dels[k].existed,
                          alerted |-> TRUE, message |-> "Delete failed: Failed to fetch"]
        /\ UNCHANGED <<items, hLoading, hError, mounted, store, loaded, succeeded>>

\* the test that also throws when the service reports that nothing was deleted
deleteHistoryThrowsNotFound(res) == ~res.ok \/ res.deleted = 0

\* part_002 line 13: if (!res.ok) throw new Error("Delete failed")
deleteHistoryThrows(res) == ~res.ok

\* line 88: s.filter((it) => String(it._id) !== String(id))
filterItems(s, id) == SelectSeq(s, LAMBDA x : StringOf(x.id) # id)

\* part_002 lines 13-14 and part_001 lines 87-91: the response arrives and the
\* call runs to its end
deleteSettles ==
    \E k \in 1..Len(dels) :
        /\ dels[k].phase = "answered"
        /\ dels' = RemoveAt(dels, k)
        /\ IF deleteHistoryThrows(dels[k])
           THEN /\ items' = items
                /\ succeeded' = succeeded
                /\ lastDelete' = [op |-> "settled", id |-> dels[k].id,
                                  existed |-> dels[k].existed, alerted |-> TRUE,
                                  message |-> "Delete failed: Delete failed"]
           ELSE /\ items' = filterItems(items, dels[k].id)
                /\ succeeded' = succeeded \cup {dels[k].id}
                /\ lastDelete' = [op |-> "settled", id |-> dels[k].id,
                                  existed |-> dels[k].existed, alerted |-> FALSE,
                                  message |-> ""]
        /\ UNCHANGED <<hLoading, hError, mounted, store, loaded>>

\* lines 102-104: the empty-state message "No history found." is rendered
emptyStateShown == Len(items) = 0 /\ ~hLoading

\* line 99: the load error is rendered
errorShown == hError # ""

\* line 98: "Loading..." is rendered
loadingShown == hLoading

HistoryInit ==
    /\ items = <<>>
    /\ hLoading = FALSE
    /\ hError = ""
    /\ mounted = "init"
    /\ store \in Stores
    /\ dels = <<>>
    /\ lastDelete = [op |-> "init", id |-> <<>>, existed |-> FALSE, alerted |-> FALSE,
                     message |-> ""]
    /\ loaded = <<>>
    /\ succeeded = {}

(***************************************************************************)
(* Specifications: one per page, the other pages' state held at rest       *)
(***************************************************************************)
IndexIdle   == IndexInit
ItemIdle    == it = Null /\ view = NotRendered
HistoryIdle == HistoryInit /\ store = <<>>

\* The symptom checker page as the browser drives it
InitIndexPage == IndexInit /\ ItemIdle /\ HistoryIdle
NextIndex ==
    \/ (\E s \in SymptomInputs : setSymptoms(s)) /\ UNCHANGED <<itemVars, histVars>>
    \/ clickAnalyze /\ UNCHANGED <<itemVars, histVars>>
    \/ fetchSettles(Replies) /\ UNCHANGED <<itemVars, histVars>>
SpecIndex == InitIndexPage /\ [][NextIndex]_vars

\* The symptom checker page with submit events dispatched at the form directly
NextHandler ==
    \/ (\E s \in SymptomInputs : setSymptoms(s)) /\ UNCHANGED <<itemVars, histVars>>
    \/ dispatchSubmit /\ UNCHANGED <<itemVars, histVars>>
    \/ fetchSettles(HandlerReplies) /\ UNCHANGED <<itemVars, histVars>>
SpecHandler == InitIndexPage /\ [][NextHandler]_vars

\* One history document through the render of its item
InitItem == ItemInit /\ IndexIdle /\ HistoryIdle
NextItem == renderItem /\ UNCHANGED <<idxVars, histVars>>
SpecItem == InitItem /\ [][NextItem]_vars

\* The history page
InitHistoryPage == HistoryInit /\ IndexIdle /\ ItemIdle
NextHistory ==
    \/ mountEffect /\ UNCHANGED <<idxVars, itemVars>>
    \/ fetchHistoryOk /\ UNCHANGED <<idxVars, itemVars>>
    \/ fetchHistoryFails /\ UNCHANGED <<idxVars, itemVars>>
    \/ clickDelete /\ UNCHANGED <<idxVars, itemVars>>
    \/ serviceHandlesDelete /\ UNCHANGED <<idxVars, itemVars>>
    \/ connectionFails /\ UNCHANGED <<idxVars, itemVars>>
    \/ deleteSettles /\ UNCHANGED <<idxVars, itemVars>>
SpecHistory == InitHistoryPage /\ [][NextHistory]_vars

(***************************************************************************)
(* Properties of the symptom checker page                                  *)
(***************************************************************************)
sHigh   == <<"H","i","g","h">>
sMedium == <<"M","e","d","i","u","m">>

\* the handler has run to its end and left a result
Analyzed == lastCall.op = "settled" /\ result # Null

\* the raw conditions of the reply the last call received
RawConditions == lastCall.reply.data.conditions.a

\* p is high, medium or low up to case and surrounding whitespace
IsProbabilityVariant(p) ==
    p.t = "string" /\ ToLowerCase(Trim(p.s)) \in { ToLowerCase(sHigh), ToLowerCase(sMedium), slow }

\* the probability the data model asks for
ExpectedProbability(p) ==
    IF IsProbabilityVariant(p)
    THEN Str(<<ToUpperChar(Head(Trim(p.s)))>> \o ToLowerCase(Tail(Trim(p.s))))
    ELSE Str(sLow)

\* C1: every probability stored in the result after handleSubmit's normalization
\* is exactly High, Medium or Low: a case/whitespace variant of high/medium/low
\* is title-cased, and every other raw value (empty, null, absent, "unknown",
\* a number) becomes Low.
C1_ProbabilityIsHighMediumLow ==
    Analyzed =>
        \A i \in 1..Len(result.conditions.a) :
            /\ result.conditions.a[i].probability \in { Str(sHigh), Str(sMedium), Str(sLow) }
            /\ result.conditions.a[i].probability
                   = ExpectedProbability(PropProbability(RawConditions[i]))

\* the reply's body is an object whose conditions and recommendations are arrays
ReplyHasBothArrays(reply) ==
    /\ reply.kind = "json"
    /\ reply.data.t = "object"
    /\ "conditions" \in DOMAIN reply.data
    /\ reply.data.conditions.t = "array"
    /\ reply.data.recommendations.t = "array"

ResultOutcome ==
    /\ result # Null
    /\ result.conditions.t = "array"
    /\ result.recommendations.t = "array"
    /\ error = ""

ErrorOutcome == result = Null /\ error # ""

\* C2: once handleSubmit has finished for a submit with non-empty trimmed
\* symptoms, whatever the server replied, loading is false and exactly one of
\* the two outcomes holds: a result whose conditions and recommendations are
\* arrays with an empty error, or no result with a non-empty error; a reply
\* whose conditions or recommendations is not an array gives the error outcome.
C2_ResultOrError ==
    lastCall.op = "settled" =>
        /\ lastCall.request.symptoms # <<>>
        /\ loading = FALSE
        /\ ResultOutcome \/ ErrorOutcome
        /\ ~(ResultOutcome /\ ErrorOutcome)
        /\ ~ReplyHasBothArrays(lastCall.reply) => ErrorOutcome

\* C2 witness: a reply with conditions an array and recommendations not an array
\* has been received and ended in the error outcome.
C2_Witness ==
    /\ lastCall.op = "settled"
    /\ lastCall.reply.kind = "json"
    /\ lastCall.reply.data.t = "object"
    /\ "conditions" \in DOMAIN lastCall.reply.data
    /\ lastCall.reply.data.conditions.t = "array"
    /\ lastCall.reply.data.recommendations.t # "array"
    /\ ErrorOutcome
    /\ loading = FALSE

\* C3: a submit whose symptoms are empty after trimming sends no request and
\* is reported as an error.
C3_EmptySubmitReported ==
    (lastCall.op = "handleSubmit" /\ Trim(lastCall.symptoms) = <<>>) =>
        /\ ~lastCall.sent
        /\ error # ""

\* the name and description the data model asks for
ExpectedName(c) ==
    IF PropName(c).t \in {"undefined", "null"} THEN Str(sUnknown) ELSE PropName(c)
ExpectedDescription(c) ==
    IF PropDescription(c).t \in {"undefined", "null"} THEN Str(<<>>) ELSE PropDescription(c)

\* C4: when the reply has conditions and recommendations as arrays, the result
\* is set whatever the elements of conditions are (objects missing fields, null,
\* primitives), each element normalized on its own: a missing name becomes
\* "Unknown", a missing description becomes empty text.
C4_MalformedConditionNeverFails ==
    (lastCall.op = "settled" /\ ReplyHasBothArrays(lastCall.reply)) =>
        /\ ResultOutcome
        /\ Len(result.conditions.a) = Len(RawConditions)
        /\ \A i \in 1..Len(RawConditions) :
              /\ result.conditions.a[i].name = ExpectedName(RawConditions[i])
              /\ result.conditions.a[i].description = ExpectedDescription(RawConditions[i])

\* C5: whenever a result is set, its urgency is one of emergency, urgent,
\* routine, self-care, so that urgencyConfig[result.urgency] is defined.
C5_UrgencyIsEnumerated ==
    result # Null => urgencyLookupDefined(result)

\* C6: the condition normalization is idempotent: applied to the conditions it
\* produced, it yields the same list.
C6_NormalizationIdempotent ==
    Analyzed =>
        /\ ~conditionsMap(result.conditions.a).threw
        /\ conditionsMap(result.conditions.a).value = result.conditions.a

(***************************************************************************)
(* Properties of the rendering of one history document                     *)
(***************************************************************************)
\* the four timestamp fields of a document in the order _created_at, created_at,
\* createdAt, result._created_at; a field that cannot be reached is absent
TimestampFields(doc) ==
    IF doc.t = "object"
    THEN << doc.u_created_at, doc.created_at, doc.createdAt,
            IF doc.result.t = "object" THEN doc.result.created ELSE Undefined >>
    ELSE << Undefined, Undefined, Undefined, Undefined >>

\* v is a string that parses to a date, or a {$date: x} wrapper whose x does
ParsesToDate(v) ==
    \/ v.t = "string" /\ NewDate(v).valid
    \/ v.t = "object" /\ "date" \in DOMAIN v /\ NewDate(v.date).valid

\* C7: for every history document (null, an object without timestamps, fields
\* that are neither string nor object, unparseable strings, {$date} wrappers
\* with an unparseable inner value) safeDateFromDoc does not throw, and it
\* returns "Invalid Date" whenever none of the four fields parses to a date.
C7_InvalidDateSentinel ==
    view.rendered =>
        /\ ~view.dateThrew
        /\ (\A i \in 1..4 : ~ParsesToDate(TimestampFields(it)[i]))
               => view.createdAtStr = sInvalidDate

\* C7 witness: a document with a wrapped unparseable _created_at, a numeric
\* created_at and no result has been resolved to the sentinel.
C7_Witness ==
    /\ view.rendered
    /\ it.t = "object"
    /\ it.u_created_at = DateWrap(Str(sGarbage))
    /\ it.created_at = Num(1700)
    /\ it.result = Null
    /\ ~view.dateThrew
    /\ view.createdAtStr = sInvalidDate

\* v holds a date as the claim words it: a parseable string, bare or wrapped
HoldsStringDate(v) ==
    \/ v.t = "string" /\ NewDate(v).valid
    \/ v.t = "object" /\ "date" \in DOMAIN v /\ v.date.t = "string" /\ NewDate(v.date).valid

\* v holds a date the code takes: a parseable string, bare or wrapped, or a
\* wrapped non-zero epoch number
HoldsDate(v) ==
    \/ HoldsStringDate(v)
    \/ v.t = "object" /\ "date" \in DOMAIN v /\ v.date.t = "number" /\ v.date.n # 0
       /\ NewDate(v.date).valid

DateOfField(v) == IF v.t = "string" THEN NewDate(v) ELSE NewDate(v.date)

\* C8 as claimed: the returned date comes from the first of the four fields that
\* holds a parseable date given as a string or wrapped as {$date: <string>}.
C8_FirstStringDateWins ==
    (view.rendered /\ \E i \in 1..4 : HoldsStringDate(TimestampFields(it)[i])) =>
        LET f == TimestampFields(it)
            k == CHOOSE i \in 1..4 :
                    HoldsStringDate(f[i]) /\ \A j \in 1..(i - 1) : ~HoldsStringDate(f[j])
        IN  view.createdAtStr = toLocaleString(DateOfField(f[k]))

\* C8 amended: the returned date comes from the first of the four fields, in the
\* order _created_at, created_at, createdAt, result._created_at, that holds a
\* date: a parseable string, bare or wrapped as {$date: ...}, or a wrapped
\* non-zero epoch number; the fields after it do not matter.
C8_FirstMatchWins ==
    (view.rendered /\ \E i \in 1..4 : HoldsDate(TimestampFields(it)[i])) =>
        LET f == TimestampFields(it)
            k == CHOOSE i \in 1..4 : HoldsDate(f[i]) /\ \A j \in 1..(i - 1) : ~HoldsDate(f[j])
        IN  view.createdAtStr = toLocaleString(DateOfField(f[k]))

\* C8 witness: _created_at is an unparseable wrapper, created_at and createdAt
\* hold different dates, and the date shown is created_at's.
C8_Witness ==
    /\ view.rendered
    /\ it.t = "object"
    /\ it.u_created_at = DateWrap(Str(sGarbage))
    /\ it.created_at = DateWrap(Str(sIso3))
    /\ it.createdAt = Str(sIso1)
    /\ view.createdAtStr = toLocaleString(DateParse(sIso3))
    /\ view.createdAtStr # toLocaleString(DateParse(sIso1))

\* result.conditions and result.recommendations of a document, absent when
\* result is
DocConditions(doc) ==
    IF doc.result.t = "object" THEN doc.result.conditions ELSE Undefined
DocRecommendations(doc) ==
    IF doc.result.t = "object" THEN doc.result.recommendations ELSE Undefined

\* C9: for a history item whose result.conditions is not an array (null, a
\* string, a number, an object, absent, or result absent) no condition is
\* rendered and the render does not throw; likewise no recommendation is
\* rendered when result.recommendations is not an array.
C9_NonArrayRendersNothing ==
    (view.rendered /\ it.t = "object") =>
        /\ DocConditions(it).t # "array" => (view.conditions = <<>> /\ ~view.threw)
        /\ DocRecommendations(it).t # "array" => view.recs = <<>>

\* C9 witness: an item whose conditions is a string and whose recommendations
\* is null has been rendered with neither list.
C9_Witness ==
    /\ view.rendered
    /\ it.t = "object"
    /\ it.result.t = "object"
    /\ it.result.conditions = Str(sFlu)
    /\ it.result.recommendations = Null
    /\ view.conditions = <<>>
    /\ view.recs = <<>>
    /\ ~view.threw

(***************************************************************************)
(* Properties of the history page                                          *)
(***************************************************************************)
\* C10: a delete of a well-formed identifier that the store does not hold, once
\* answered by the service, is a success at the client: deleteHistory does not
\* throw, handleDelete shows no "Delete failed" alert, and the item is gone
\* from the list (so a retry after a dropped response sees no failure).
C10_DeleteOfMissingIdSucceeds ==
    (lastDelete.op = "settled" /\ lastDelete.id # <<>> /\ ~lastDelete.existed) =>
        /\ ~lastDelete.alerted
        /\ lastDelete.message = ""
        /\ \A i \in 1..Len(items) : StringOf(items[i].id) # lastDelete.id

\* C10 witness: a delete request for an identifier no longer in the store has
\* been answered and handleDelete has finished without an alert.
C10_Witness ==
    /\ lastDelete.op = "settled"
    /\ lastDelete.id = sId1
    /\ ~lastDelete.existed
    /\ ~lastDelete.alerted
    /\ \A i \in 1..Len(store) : store[i] # sId1

\* C11: an item whose identifier is absent is not deletable: deleteHistory is
\* never called with an empty identifier, so no delete request in flight and no
\* handleDelete step carries one.
C11_NoDeleteWithEmptyId ==
    /\ \A k \in 1..Len(dels) : dels[k].id # <<>>
    /\ lastDelete.op \in {"sent", "lost", "settled"} => lastDelete.id # <<>>

\* C12: "No history found." is shown only when a load has completed
\* successfully and no item is left: never before the first load has finished
\* and never together with the load error.
C12_EmptyStateOnlyAfterSuccessfulLoad ==
    emptyStateShown =>
        /\ mounted = "done"
        /\ ~errorShown
        /\ Len(items) = 0

\* the loaded list without the items whose identifier is in ids
LoadedWithout(ids) == SelectSeq(loaded, LAMBDA x : StringOf(x.id) \notin ids)

\* C13: under any interleaving of handleDelete calls (several requests in
\* flight, completing in any order) the displayed list is the loaded list minus
\* exactly the items whose delete request has succeeded: a request in flight, a
\* declined confirmation or a failed request removes nothing.
C13_ItemsAreLoadedMinusSucceeded ==
    /\ items = LoadedWithout(succeeded)
    /\ lastDelete.op \in {"declined", "lost"} \/ lastDelete.alerted
           => \A i \in 1..Len(loaded) :
                 StringOf(loaded[i].id) = lastDelete.id /\ lastDelete.id \notin succeeded
                     => \E j \in 1..Len(items) : items[j] = loaded[i]

\* C13 witness: two items were loaded, a delete of one has succeeded and taken
\* it out of the list while the delete of the other is still in flight and its
\* item still displayed.
C13_Witness ==
    /\ Len(loaded) = 2
    /\ lastDelete.op = "settled"
    /\ ~lastDelete.alerted
    /\ succeeded = {lastDelete.id}
    /\ Len(dels) = 1
    /\ dels[1].id # lastDelete.id
    /\ Len(items) = 1
    /\ StringOf(items[1].id) = dels[1].id
====
